---------------------------- MODULE Spec2Model ----------------------------
(***************************************************************************)
(* A model of FAISSService (backend/app/services/faiss_service.py): the    *)
(* flat L2 vector index, the two insertion-ordered dictionaries _metadata  *)
(* and _id_to_index, and the two files they are saved to.                  *)
(*                                                                         *)
(* Every handler runs to completion before the next one starts: the        *)
(* routers are coroutines without an await inside the service calls, so    *)
(* one action of the model is one whole call.                              *)
(*                                                                         *)
(* Vectors are sequences of small integers.  Such values are exactly       *)
(* representable in float32, so np.array(..., dtype=np.float32) leaves     *)
(* them as they are and the squared L2 distance is exact.                  *)
(***************************************************************************)
EXTENDS Integers, Sequences, FiniteSets

(***************************************************************************)
(* Bounds of the model.                                                    *)
(***************************************************************************)
\* The dimension of the index.  The source builds IndexFlatL2(384); the
\* handlers use the number only through the library's length check, so the
\* model enumerates vectors of a scaled-down dimension.
Dim == 2

\* add_resume is not taken once the index holds this many vectors.
MaxTotal == 2

(***************************************************************************)
(* Inputs.                                                                 *)
(***************************************************************************)
ResumeIds == {"r1", "r2"}

\* The vector with a 1 at component j and 0 elsewhere (all 0 for j = 0).
Unit(j) == [i \in 1..Dim |-> IF i = j THEN 1 ELSE 0]

\* The embeddings of the right length: the zero vector, the first and the
\* last unit vector.
Vectors == {Unit(0), Unit(1), Unit(Dim)}

\* Embeddings of the wrong length: one component short, one too many.
BadVectors == {[i \in 1..(Dim - 1) |-> 1], [i \in 1..(Dim + 1) |-> 1]}

Embeddings == Vectors \cup BadVectors

\* What a caller passes as (resume_text, metadata); metadata may be None.
Payloads ==
    { [text |-> "engineer", metadata |-> "None"],
      [text |-> "designer", metadata |-> "attrs"] }

\* n_results of a request: a positive count, up to one more than the index
\* can hold.
Ks == 1..(MaxTotal + 1)

\* How one file write ends: the file holds the new content, the write raised
\* before touching the file, or it raised after truncating the file.
WriteOutcomes == {"ok", "unchanged", "torn"}

VARIABLES
    index,          \* FAISSService._index: the vectors, position p at index[p + 1]
    metadata,       \* FAISSService._metadata: sequence of [key, val], insertion order
    id_to_index,    \* FAISSService._id_to_index: sequence of [key, val], insertion order
    index_file,     \* ./faiss_data/resumes.index
    metadata_file,  \* ./faiss_data/metadata.json
    last,           \* the last call: its name, arguments and return value
    deleted,        \* history: ids deleted with success and not added since
    preceding,      \* history: after an initialize, the call made before it
    threads,        \* the two calls in progress when calls run in threads
    request         \* the last HTTP request: its route, what the embedding
                    \* generator returned for it, and the response status

vars ==
    <<index, metadata, id_to_index, index_file, metadata_file, last, deleted,
      preceding, threads, request>>

(***************************************************************************)
(* Python dictionaries: insertion-ordered sequences of [key, val].         *)
(***************************************************************************)
Keys(d) == {d[i].key : i \in DOMAIN d}

Has(d, k) == k \in Keys(d)

Get(d, k) == d[CHOOSE i \in DOMAIN d : d[i].key = k].val

\* d[k] = v: an existing key keeps its place, a new key goes last.
Put(d, k, v) ==
    IF Has(d, k)
    THEN [i \in DOMAIN d |-> IF d[i].key = k THEN [key |-> k, val |-> v] ELSE d[i]]
    ELSE Append(d, [key |-> k, val |-> v])

\* A del that removes nothing: what Del must not be.
DelKeepsKey(d, k) == d

\* del d[k]
Del(d, k) == SelectSeq(d, LAMBDA e : e.key # k)


(***************************************************************************)
(* faiss.IndexFlatL2: add appends, search is exhaustive.                   *)
(***************************************************************************)
ntotal(vecs) == Len(vecs)

RECURSIVE SumSq(_, _, _)
SumSq(a, b, i) ==
    IF i = 0 THEN 0 ELSE (a[i] - b[i]) * (a[i] - b[i]) + SumSq(a, b, i - 1)

\* Squared euclidean distance of two vectors of the same length.
L2sqr(a, b) == SumSq(a, b, Len(a))

\* Position p1 comes before position p2 in the answer to a query at the
\* distances d: nearer first, equal distances by ascending position.
Before(d, p1, p2) == d[p1] < d[p2] \/ (d[p1] = d[p2] /\ p1 < p2)

\* The distance of query q to every position of the index.
Distances(vecs, q) == [p \in 0..(Len(vecs) - 1) |-> L2sqr(q, vecs[p + 1])]

\* How many positions come before each position.
Ranks(d) ==
    [p \in DOMAIN d |-> Cardinality({p2 \in DOMAIN d : Before(d, p2, p)})]

\* The k first positions by rank, each with its distance.
Nearest(d, rank, k) ==
    [i \in 1..k |->
        LET p == CHOOSE p \in DOMAIN d : rank[p] = i - 1
        IN  [idx |-> p, distance |-> d[p]]]

NearestByDistance(d, k) == Nearest(d, Ranks(d), k)

\* index.search(q, k) for 1 <= k <= ntotal: the k nearest positions with
\* their distances, nearest first.
FlatSearch(vecs, q, k) == NearestByDistance(Distances(vecs, q), k)

(***************************************************************************)
(* The files.                                                              *)
(***************************************************************************)
AbsentIndexFile == [st |-> "absent", vecs |-> <<>>]

AbsentMetadataFile == [st |-> "absent", metadata |-> <<>>, id_to_index |-> <<>>]

\* _load_index: a file that is missing or does not parse gives an empty index.
LoadIndex(f) == IF f.st = "ok" THEN f.vecs ELSE <<>>

\* _load_metadata: a file that is missing or does not parse gives two empty
\* dictionaries.
LoadMetadata(f) ==
    IF f.st = "ok"
    THEN [metadata |-> f.metadata, id_to_index |-> f.id_to_index]
    ELSE [metadata |-> <<>>, id_to_index |-> <<>>]

\* A save that never writes the index file: what SaveIndex must not be.
SaveIndexNothing(f, vecs, w) == f

\* _save_index: the file after the write attempt; an exception is only logged.
SaveIndex(f, vecs, w) ==
    CASE w = "ok"        -> [st |-> "ok", vecs |-> vecs]
      [] w = "unchanged" -> f
      [] w = "torn"      -> [st |-> "malformed", vecs |-> <<>>]

\* _save_metadata: the file after the write attempt; an exception is only logged.
SaveMetadata(f, md, idx, w) ==
    CASE w = "ok"        -> [st |-> "ok", metadata |-> md, id_to_index |-> idx]
      [] w = "unchanged" -> f
      [] w = "torn"      ->
            [st |-> "malformed", metadata |-> <<>>, id_to_index |-> <<>>]

(***************************************************************************)
(* Return values.                                                          *)
(***************************************************************************)
\* The dict search_resumes returns; none marks the None of the except branch.
EmptyResult ==
    [none |-> FALSE, ids |-> <<>>, distances |-> <<>>,
     documents |-> <<>>, metadatas |-> <<>>]

NoneResult ==
    [none |-> TRUE, ids |-> <<>>, distances |-> <<>>,
     documents |-> <<>>, metadatas |-> <<>>]

\* A finished call, as kept in last.
Call(op, id, emb, k, ok, res, total) ==
    [op |-> op, id |-> id, emb |-> emb, k |-> k, ok |-> ok, res |-> res,
     total |-> total]

(***************************************************************************)
(* search_resumes                                                          *)
(***************************************************************************)
\* The reverse map that keeps, of two ids bound to one position, the one
\* earlier in the dictionary: what index_to_id must not be.
index_to_id_first(idmap) ==
    [p \in {idmap[i].val : i \in DOMAIN idmap} |->
        LET j == CHOOSE j \in DOMAIN idmap :
                    /\ idmap[j].val = p
                    /\ \A i \in DOMAIN idmap : idmap[i].val = p => j <= i
        IN  idmap[j].key]

\* {v: k for k, v in _id_to_index.items()}: of two ids bound to one position
\* the one later in the dictionary stays.
index_to_id(idmap) ==
    [p \in {idmap[i].val : i \in DOMAIN idmap} |->
        LET j == CHOOSE j \in DOMAIN idmap :
                    /\ idmap[j].val = p
                    /\ \A i \in DOMAIN idmap : idmap[i].val = p => i <= j
        IN  idmap[j].key]

\* A loop turn that gives the query up (None) at a hit whose position has no
\* id: what AppendHit must not be.
AppendHitOrFail(acc, hit, md, rev) ==
    IF acc.none \/ hit.idx \notin DOMAIN rev
    THEN NoneResult
    ELSE [none |-> FALSE,
          ids |-> Append(acc.ids, rev[hit.idx]),
          distances |-> Append(acc.distances, hit.distance),
          documents |->
              Append(acc.documents,
                     IF Has(md, rev[hit.idx])
                     THEN Get(md, rev[hit.idx]).text ELSE ""),
          metadatas |->
              Append(acc.metadatas,
                     IF Has(md, rev[hit.idx])
                     THEN Get(md, rev[hit.idx]).metadata ELSE "{}")]

\* One turn of the loop over zip(indices[0], distances[0]): the hit is
\* appended to the four lists, or skipped when its position has no id.
AppendHit(acc, hit, md, rev) ==
    IF hit.idx \in DOMAIN rev
    THEN [none |-> FALSE,
          ids |-> Append(acc.ids, rev[hit.idx]),
          distances |-> Append(acc.distances, hit.distance),
          documents |->
              Append(acc.documents,
                     IF Has(md, rev[hit.idx])
                     THEN Get(md, rev[hit.idx]).text ELSE ""),
          metadatas |->
              Append(acc.metadatas,
                     IF Has(md, rev[hit.idx])
                     THEN Get(md, rev[hit.idx]).metadata ELSE "{}")]
    ELSE acc

\* The results after the first i raw hits.
RECURSIVE BuildResults(_, _, _, _)
BuildResults(raw, i, md, rev) ==
    IF i = 0 THEN EmptyResult
    ELSE AppendHit(BuildResults(raw, i - 1, md, rev), raw[i], md, rev)

\* The results dict of all the raw hits.
ResultsOf(raw, md, rev) == BuildResults(raw, Len(raw), md, rev)

Min(a, b) == IF a < b THEN a ELSE b

\* search_resumes without its early return on an empty index: the query
\* reaches the library, which raises on a wrong length and on k = 0.
SearchOnWithoutEmptyCheck(vecs, md, idmap, query_embedding, n_results) ==
    IF Len(query_embedding) # Dim \/ Min(n_results, ntotal(vecs)) = 0
    THEN NoneResult
    ELSE ResultsOf(FlatSearch(vecs, query_embedding,
                              Min(n_results, ntotal(vecs))),
                   md, index_to_id(idmap))

\* What search_resumes(query_embedding, n_results) returns on the index
\* vecs with the dictionaries md and idmap.  The library's search raises on
\* a query of another length; the except branch turns that into None.
SearchOn(vecs, md, idmap, query_embedding, n_results) ==
    IF ntotal(vecs) = 0 THEN EmptyResult
    ELSE IF Len(query_embedding) # Dim THEN NoneResult
    ELSE ResultsOf(FlatSearch(vecs, query_embedding,
                              Min(n_results, ntotal(vecs))),
                   md, index_to_id(idmap))

\* search_resumes in the current state.
search_resumes(query_embedding, n_results) ==
    SearchOn(index, metadata, id_to_index, query_embedding, n_results)

\* get_collection_stats()["total_items"]
total_items == ntotal(index)

\* A call in progress in a thread: where it is in the handler's code, its
\* arguments and its local variables.
IdleThread ==
    [pc |-> "idle", resume_id |-> "", embedding |-> <<>>, index_position |-> 0,
     n_items |-> 0, new_id_to_index |-> <<>>]

\* generate_embedding returned None: no vector.
NoVector == <<>>

\* No HTTP request: the service was called directly, or not at all.
NoRequest == [route |-> "", generated |-> NoVector, status |-> 0]

\* No call is in progress: the handlers run one whole call at a time.
NoThreads == [add |-> IdleThread, del |-> IdleThread]

\* A whole call made while no other call is in progress.
OneAtATime ==
    /\ threads = NoThreads
    /\ preceding' = ""
    /\ request' = NoRequest
    /\ UNCHANGED threads

(***************************************************************************)
(* The state when the application starts: importing routers/embeddings.py  *)
(* runs FAISSService.initialize() on a data directory that os.makedirs has *)
(* just created, so _index is an empty index and never None afterwards.    *)
(***************************************************************************)
Init ==
    /\ index = LoadIndex(AbsentIndexFile)
    /\ metadata = LoadMetadata(AbsentMetadataFile).metadata
    /\ id_to_index = LoadMetadata(AbsentMetadataFile).id_to_index
    /\ index_file = AbsentIndexFile
    /\ metadata_file = AbsentMetadataFile
    /\ last = Call("initialize", "", <<>>, 0, TRUE, EmptyResult, 0)
    /\ deleted = {}
    /\ preceding = ""
    /\ threads = NoThreads
    /\ request = NoRequest

\* An initialize that adds the vectors of the file to those in memory: what
\* Initialize must not be.
InitializeAppending ==
    /\ index' = index \o LoadIndex(index_file)
    /\ metadata' = LoadMetadata(metadata_file).metadata
    /\ id_to_index' = LoadMetadata(metadata_file).id_to_index
    /\ last' = Call("initialize", "", <<>>, 0, TRUE, EmptyResult, 0)
    /\ deleted' = {}
    /\ preceding' = last.op
    /\ request' = NoRequest
    /\ UNCHANGED <<index_file, metadata_file, threads>>

\* initialize(): both loads, each replacing what is in memory.  A restart of
\* the process is the same step: the class attributes are reset and the
\* import runs initialize().
Initialize ==
    /\ index' = LoadIndex(index_file)
    /\ metadata' = LoadMetadata(metadata_file).metadata
    /\ id_to_index' = LoadMetadata(metadata_file).id_to_index
    /\ last' = Call("initialize", "", <<>>, 0, TRUE, EmptyResult, 0)
    /\ deleted' = {}
    /\ preceding' = last.op
    /\ request' = NoRequest
    /\ UNCHANGED <<index_file, metadata_file, threads>>

\* An add that takes a row of any length: what AddAccepts must not be.
AddAcceptsAnyLength(embedding) == TRUE

\* index.add(embedding_array) raises unless the row has the index's length.
AddAccepts(embedding) == Len(embedding) = Dim

\* metadata = {} when the caller passed None.
StoredRecord(payload) ==
    [text |-> payload.text,
     metadata |-> IF payload.metadata = "None" THEN "{}" ELSE payload.metadata]

\* add_resume(resume_id, resume_text, embedding, metadata); wi and wm are how
\* the two file writes end.
add_resume(resume_id, payload, embedding, wi, wm) ==
    IF ~AddAccepts(embedding)
    THEN \* the exception of index.add is caught: return False
         /\ last' = Call("add_resume", resume_id, embedding, 0, FALSE, EmptyResult, 0)
         /\ UNCHANGED <<index, metadata, id_to_index, index_file, metadata_file,
                        deleted>>
    ELSE /\ ntotal(index) < MaxTotal
         /\ LET index_position == ntotal(index)
            IN  /\ index' = Append(index, embedding)
                /\ metadata' = Put(metadata, resume_id, StoredRecord(payload))
                /\ id_to_index' = Put(id_to_index, resume_id, index_position)
         /\ index_file' = SaveIndex(index_file, index', wi)
         /\ metadata_file' = SaveMetadata(metadata_file, metadata', id_to_index', wm)
         /\ last' = Call("add_resume", resume_id, embedding, 0, TRUE, EmptyResult, 0)
         /\ deleted' = deleted \ {resume_id}

\* _rebuild_index's loop: the ids of _metadata, numbered in dictionary order.
RebuiltIdToIndex(md) == [i \in DOMAIN md |-> [key |-> md[i].key, val |-> i - 1]]

\* The index _rebuild_index installs: a new IndexFlatL2, to which the loop
\* adds nothing.
RebuiltIndex(md) == <<>>

\* A delete that does not look the id up first: it rebuilds and saves whether
\* the id is stored or not.  What delete_resume must not be.
delete_resume_unchecked(resume_id, wi, wm) ==
    /\ metadata' = Del(metadata, resume_id)
    /\ index' = RebuiltIndex(metadata')
    /\ id_to_index' = RebuiltIdToIndex(metadata')
    /\ index_file' = SaveIndex(index_file, index', wi)
    /\ metadata_file' = SaveMetadata(metadata_file, metadata', id_to_index', wm)
    /\ last' = Call("delete_resume", resume_id, <<>>, 0, Has(metadata, resume_id),
                    EmptyResult, 0)
    /\ deleted' = deleted \cup {resume_id}

\* delete_resume(resume_id), with _rebuild_index and its two writes.
delete_resume(resume_id, wi, wm) ==
    IF ~Has(metadata, resume_id)
    THEN /\ last' = Call("delete_resume", resume_id, <<>>, 0, FALSE, EmptyResult, 0)
         /\ UNCHANGED <<index, metadata, id_to_index, index_file, metadata_file,
                        deleted>>
    ELSE IF ~Has(id_to_index, resume_id)
    THEN \* del _id_to_index[resume_id] raises KeyError after the first del
         /\ metadata' = Del(metadata, resume_id)
         /\ last' = Call("delete_resume", resume_id, <<>>, 0, FALSE, EmptyResult, 0)
         /\ UNCHANGED <<index, id_to_index, index_file, metadata_file, deleted>>
    ELSE /\ metadata' = Del(metadata, resume_id)
         /\ index' = RebuiltIndex(metadata')
         /\ id_to_index' = RebuiltIdToIndex(metadata')
         /\ index_file' = SaveIndex(index_file, index', wi)
         /\ metadata_file' = SaveMetadata(metadata_file, metadata', id_to_index', wm)
         /\ last' = Call("delete_resume", resume_id, <<>>, 0, TRUE, EmptyResult, 0)
         /\ deleted' = deleted \cup {resume_id}

\* A clear that empties the structures in memory and saves nothing: what
\* clear_collection must not be.
clear_collection_unsaved(wi, wm) ==
    /\ index' = <<>>
    /\ metadata' = <<>>
    /\ id_to_index' = <<>>
    /\ last' = Call("clear_collection", "", <<>>, 0, TRUE, EmptyResult, 0)
    /\ UNCHANGED <<index_file, metadata_file, deleted>>

\* clear_collection()
clear_collection(wi, wm) ==
    /\ index' = <<>>
    /\ metadata' = <<>>
    /\ id_to_index' = <<>>
    /\ index_file' = SaveIndex(index_file, index', wi)
    /\ metadata_file' = SaveMetadata(metadata_file, metadata', id_to_index', wm)
    /\ last' = Call("clear_collection", "", <<>>, 0, TRUE, EmptyResult, 0)
    /\ UNCHANGED deleted

\* A search_resumes call: only its return value is kept.
SearchResumes(query_embedding, n_results) ==
    /\ LET results == search_resumes(query_embedding, n_results)
       IN  last' = Call("search_resumes", "", query_embedding, n_results,
                        ~results.none, results, 0)
    /\ UNCHANGED <<index, metadata, id_to_index, index_file, metadata_file,
                   deleted>>
    /\ OneAtATime

\* A get_collection_stats call.
GetCollectionStats ==
    /\ last' = Call("get_collection_stats", "", <<>>, 0, TRUE, EmptyResult,
                    total_items)
    /\ UNCHANGED <<index, metadata, id_to_index, index_file, metadata_file,
                   deleted>>
    /\ OneAtATime

\* list_all_resumes(): the keys of _metadata, in dictionary order.
list_all_resumes == [i \in DOMAIN metadata |-> metadata[i].key]

\* get_resume(resume_id): the stored record, or None for an id that is not a
\* key of _metadata.
get_resume(resume_id) ==
    IF ~Has(metadata, resume_id)
    THEN [none |-> TRUE, id |-> resume_id, document |-> "", metadata |-> ""]
    ELSE [none |-> FALSE, id |-> resume_id,
          document |-> Get(metadata, resume_id).text,
          metadata |-> Get(metadata, resume_id).metadata]

\* A get_resume that takes the record out of _metadata (pop for get): what
\* GetResume must not be.
GetResumePopping(resume_id) ==
    /\ last' = Call("get_resume", resume_id, <<>>, 0,
                    ~get_resume(resume_id).none, EmptyResult, 0)
    /\ metadata' = Del(metadata, resume_id)
    /\ UNCHANGED <<index, id_to_index, index_file, metadata_file, deleted>>
    /\ OneAtATime

\* A get_resume call: found or None.
GetResume(resume_id) ==
    /\ last' = Call("get_resume", resume_id, <<>>, 0,
                    ~get_resume(resume_id).none, EmptyResult, 0)
    /\ UNCHANGED <<index, metadata, id_to_index, index_file, metadata_file,
                   deleted>>
    /\ OneAtATime

\* A list_all_resumes call; the number of ids listed is kept.
ListAllResumes ==
    /\ last' = Call("list_all_resumes", "", <<>>, 0, TRUE, EmptyResult,
                    Len(list_all_resumes))
    /\ UNCHANGED <<index, metadata, id_to_index, index_file, metadata_file,
                   deleted>>
    /\ OneAtATime

\* The calls a client can make; W is the set of ways a file write can end.
AddResume(W) ==
    \E resume_id \in ResumeIds, payload \in Payloads, embedding \in Embeddings,
       wi \in W, wm \in W :
        add_resume(resume_id, payload, embedding, wi, wm) /\ OneAtATime

DeleteResume(W) ==
    \E resume_id \in ResumeIds, wi \in W, wm \in W :
        delete_resume(resume_id, wi, wm) /\ OneAtATime

ClearCollection(W) ==
    \E wi \in W, wm \in W : clear_collection(wi, wm) /\ OneAtATime

Search ==
    \E query_embedding \in Embeddings, n_results \in Ks :
        SearchResumes(query_embedding, n_results)

\* The service on a disk whose writes succeed.
Next ==
    \/ Initialize
    \/ AddResume({"ok"})
    \/ DeleteResume({"ok"})
    \/ ClearCollection({"ok"})
    \/ Search
    \/ GetCollectionStats

Spec == Init /\ [][Next]_vars

GetResumeCall == \E resume_id \in ResumeIds : GetResume(resume_id)

\* The service with all four of its read calls.
NextReads ==
    \/ Next
    \/ GetResumeCall
    \/ ListAllResumes

SpecReads == Init /\ [][NextReads]_vars

\* The mutating calls on a disk where each file write can also fail, with one
\* payload and two embeddings; a crash between the two writes of a save is
\* a write that succeeds, one that leaves its file as it is, and Initialize.
AddResumeOnFaultyDisk ==
    \E resume_id \in ResumeIds, embedding \in {Unit(0), Unit(1)},
       wi \in WriteOutcomes, wm \in WriteOutcomes :
        /\ add_resume(resume_id, [text |-> "engineer", metadata |-> "None"],
                      embedding, wi, wm)
        /\ OneAtATime

NextFaults ==
    \/ Initialize
    \/ AddResumeOnFaultyDisk
    \/ DeleteResume(WriteOutcomes)
    \/ ClearCollection(WriteOutcomes)

SpecFaults == Init /\ [][NextFaults]_vars

(***************************************************************************)
(* The routes of routers/embeddings.py: each asks the embedding generator  *)
(* for a vector, which returns one of length D or None, and calls the      *)
(* service with it.                                                        *)
(***************************************************************************)
\* What generate_embedding(text) can return.
Generated == Vectors \cup {NoVector}

\* The service was not called.
NoCall == Call("", "", <<>>, 0, FALSE, EmptyResult, 0)

\* An /add-resume that puts the zero vector in place of the one the generator
\* did not return: what post_add_resume must not be.
post_add_resume_placeholder(resume_id, payload, generated) ==
    /\ add_resume(resume_id, payload,
                  IF generated = NoVector THEN Unit(0) ELSE generated, "ok", "ok")
    /\ request' = [route |-> "/add-resume", generated |-> generated,
                   status |-> IF last'.ok THEN 200 ELSE 400]
    /\ preceding' = ""
    /\ UNCHANGED threads

\* POST /add-resume: 400 when the generator returned nothing or add_resume
\* returned False, 200 otherwise.
post_add_resume(resume_id, payload, generated) ==
    /\ IF generated = NoVector
       THEN /\ last' = NoCall
            /\ request' = [route |-> "/add-resume", generated |-> generated,
                           status |-> 400]
            /\ UNCHANGED <<index, metadata, id_to_index, index_file,
                           metadata_file, deleted>>
       ELSE /\ add_resume(resume_id, payload, generated, "ok", "ok")
            /\ request' = [route |-> "/add-resume", generated |-> generated,
                           status |-> IF last'.ok THEN 200 ELSE 400]
    /\ preceding' = ""
    /\ UNCHANGED threads

\* POST /search-resumes: 400 when the generator returned nothing or
\* search_resumes returned None, 200 otherwise.
post_search_resumes(generated, n_results) ==
    /\ IF generated = NoVector
       THEN /\ last' = NoCall
            /\ request' = [route |-> "/search-resumes", generated |-> generated,
                           status |-> 400]
       ELSE /\ last' = Call("search_resumes", "", generated, n_results,
                            ~search_resumes(generated, n_results).none,
                            search_resumes(generated, n_results), 0)
            /\ request' = [route |-> "/search-resumes", generated |-> generated,
                           status |-> IF last'.ok THEN 200 ELSE 400]
    /\ preceding' = ""
    /\ UNCHANGED <<index, metadata, id_to_index, index_file, metadata_file,
                   deleted, threads>>

\* GET /collection-stats
get_stats ==
    /\ last' = Call("get_collection_stats", "", <<>>, 0, TRUE, EmptyResult,
                    total_items)
    /\ request' = [route |-> "/collection-stats", generated |-> NoVector,
                   status |-> 200]
    /\ preceding' = ""
    /\ UNCHANGED <<index, metadata, id_to_index, index_file, metadata_file,
                   deleted, threads>>

PostAddResume ==
    \E resume_id \in ResumeIds, payload \in Payloads, generated \in Generated :
        post_add_resume(resume_id, payload, generated)

PostSearchResumes ==
    \E generated \in Generated, n_results \in Ks :
        post_search_resumes(generated, n_results)

\* The application as its clients see it; Initialize is a restart.
NextRoutes ==
    \/ Initialize
    \/ PostAddResume
    \/ PostSearchResumes
    \/ get_stats

SpecRoutes == Init /\ [][NextRoutes]_vars

(***************************************************************************)
(* add_resume and delete_resume called from two threads.  The class has no *)
(* lock, so the two calls interleave between statements; each action below *)
(* is one statement of the handler, on a disk whose writes succeed.        *)
(***************************************************************************)
ThreadPayload == [text |-> "engineer", metadata |-> "None"]

ThreadVectors == {Unit(0), Unit(1)}

\* The collection is filled by whole calls before either thread starts.
AddResumeBeforeThreads ==
    \E resume_id \in ResumeIds, embedding \in ThreadVectors :
        /\ add_resume(resume_id, ThreadPayload, embedding, "ok", "ok")
        /\ OneAtATime

\* A thread enters add_resume(resume_id, text, embedding).
AddCall ==
    \E resume_id \in ResumeIds, embedding \in ThreadVectors :
        /\ threads.add.pc = "idle"
        /\ ntotal(index) < MaxTotal
        /\ threads' = [threads EXCEPT !.add =
                [IdleThread EXCEPT !.pc = "position", !.resume_id = resume_id,
                                   !.embedding = embedding]]
        /\ UNCHANGED <<index, metadata, id_to_index, index_file, metadata_file,
                       last, deleted, preceding, request>>

\* index_position = FAISSService._index.ntotal
AddPosition ==
    /\ threads.add.pc = "position"
    /\ threads' = [threads EXCEPT !.add.index_position = ntotal(index),
                                  !.add.pc = "add"]
    /\ UNCHANGED <<index, metadata, id_to_index, index_file, metadata_file,
                   last, deleted, preceding, request>>

\* FAISSService._index.add(embedding_array)
AddVector ==
    /\ threads.add.pc = "add"
    /\ index' = Append(index, threads.add.embedding)
    /\ threads' = [threads EXCEPT !.add.pc = "metadata"]
    /\ UNCHANGED <<metadata, id_to_index, index_file, metadata_file, last,
                   deleted, preceding, request>>

\* FAISSService._metadata[resume_id] = {...}
AddMetadata ==
    /\ threads.add.pc = "metadata"
    /\ metadata' = Put(metadata, threads.add.resume_id, StoredRecord(ThreadPayload))
    /\ threads' = [threads EXCEPT !.add.pc = "id_to_index"]
    /\ UNCHANGED <<index, id_to_index, index_file, metadata_file, last,
                   deleted, preceding, request>>

\* FAISSService._id_to_index[resume_id] = index_position
AddIdToIndex ==
    /\ threads.add.pc = "id_to_index"
    /\ id_to_index' = Put(id_to_index, threads.add.resume_id,
                          threads.add.index_position)
    /\ threads' = [threads EXCEPT !.add.pc = "save_index"]
    /\ UNCHANGED <<index, metadata, index_file, metadata_file, last, deleted,
                   preceding, request>>

\* FAISSService._save_index()
AddSaveIndex ==
    /\ threads.add.pc = "save_index"
    /\ index_file' = SaveIndex(index_file, index, "ok")
    /\ threads' = [threads EXCEPT !.add.pc = "save_metadata"]
    /\ UNCHANGED <<index, metadata, id_to_index, metadata_file, last, deleted,
                   preceding, request>>

\* FAISSService._save_metadata(); return True
AddSaveMetadata ==
    /\ threads.add.pc = "save_metadata"
    /\ metadata_file' = SaveMetadata(metadata_file, metadata, id_to_index, "ok")
    /\ last' = Call("add_resume", threads.add.resume_id, threads.add.embedding,
                    0, TRUE, EmptyResult, 0)
    /\ deleted' = deleted \ {threads.add.resume_id}
    /\ preceding' = ""
    /\ UNCHANGED request
    /\ threads' = [threads EXCEPT !.add.pc = "done"]
    /\ UNCHANGED <<index, metadata, id_to_index, index_file>>

\* A thread enters delete_resume(resume_id).
DelCall ==
    \E resume_id \in ResumeIds :
        /\ threads.del.pc = "idle"
        /\ threads' = [threads EXCEPT !.del =
                [IdleThread EXCEPT !.pc = "check", !.resume_id = resume_id]]
        /\ UNCHANGED <<index, metadata, id_to_index, index_file, metadata_file,
                       last, deleted, preceding, request>>

\* delete_resume returns ok to its caller.
DelReturn(ok) ==
    /\ last' = Call("delete_resume", threads.del.resume_id, <<>>, 0, ok,
                    EmptyResult, 0)
    /\ deleted' = IF ok THEN deleted \cup {threads.del.resume_id} ELSE deleted
    /\ preceding' = ""
    /\ UNCHANGED request
    /\ threads' = [threads EXCEPT !.del.pc = "done"]

\* if resume_id not in FAISSService._metadata: return False
DelCheck ==
    /\ threads.del.pc = "check"
    /\ IF ~Has(metadata, threads.del.resume_id)
       THEN DelReturn(FALSE)
       ELSE /\ threads' = [threads EXCEPT !.del.pc = "del_metadata"]
            /\ UNCHANGED <<last, deleted, preceding, request>>
    /\ UNCHANGED <<index, metadata, id_to_index, index_file, metadata_file>>

\* del FAISSService._metadata[resume_id]; a KeyError ends the call with False
DelMetadata ==
    /\ threads.del.pc = "del_metadata"
    /\ IF ~Has(metadata, threads.del.resume_id)
       THEN DelReturn(FALSE) /\ UNCHANGED metadata
       ELSE /\ metadata' = Del(metadata, threads.del.resume_id)
            /\ threads' = [threads EXCEPT !.del.pc = "del_id_to_index"]
            /\ UNCHANGED <<last, deleted, preceding, request>>
    /\ UNCHANGED <<index, id_to_index, index_file, metadata_file>>

\* del FAISSService._id_to_index[resume_id]; a KeyError ends the call with
\* False
DelIdToIndex ==
    /\ threads.del.pc = "del_id_to_index"
    /\ IF ~Has(id_to_index, threads.del.resume_id)
       THEN DelReturn(FALSE) /\ UNCHANGED id_to_index
       ELSE /\ id_to_index' = Del(id_to_index, threads.del.resume_id)
            /\ threads' = [threads EXCEPT !.del.pc = "rebuild"]
            /\ UNCHANGED <<last, deleted, preceding, request>>
    /\ UNCHANGED <<index, metadata, index_file, metadata_file>>

\* _rebuild_index: the iterator over _metadata.items() is created; it
\* remembers the size of the dictionary.
DelIterate ==
    /\ threads.del.pc = "rebuild"
    /\ threads' = [threads EXCEPT !.del.n_items = Len(metadata),
                                  !.del.pc = "loop"]
    /\ UNCHANGED <<index, metadata, id_to_index, index_file, metadata_file,
                   last, deleted, preceding, request>>

\* The loop of _rebuild_index.  When the dictionary has another size than at
\* the start, the iterator raises RuntimeError: _rebuild_index logs it and
\* installs and saves nothing, and delete_resume returns True.
DelLoop ==
    /\ threads.del.pc = "loop"
    /\ IF Len(metadata) # threads.del.n_items
       THEN DelReturn(TRUE)
       ELSE /\ threads' = [threads EXCEPT
                    !.del.new_id_to_index = RebuiltIdToIndex(metadata),
                    !.del.pc = "install_index"]
            /\ UNCHANGED <<last, deleted, preceding, request>>
    /\ UNCHANGED <<index, metadata, id_to_index, index_file, metadata_file>>

\* FAISSService._index = new_index
DelInstallIndex ==
    /\ threads.del.pc = "install_index"
    /\ index' = RebuiltIndex(metadata)
    /\ threads' = [threads EXCEPT !.del.pc = "install_id_to_index"]
    /\ UNCHANGED <<metadata, id_to_index, index_file, metadata_file, last,
                   deleted, preceding, request>>

\* FAISSService._id_to_index = new_id_to_index
DelInstallIdToIndex ==
    /\ threads.del.pc = "install_id_to_index"
    /\ id_to_index' = threads.del.new_id_to_index
    /\ threads' = [threads EXCEPT !.del.pc = "save_index"]
    /\ UNCHANGED <<index, metadata, index_file, metadata_file, last, deleted,
                   preceding, request>>

\* FAISSService._save_index()
DelSaveIndex ==
    /\ threads.del.pc = "save_index"
    /\ index_file' = SaveIndex(index_file, index, "ok")
    /\ threads' = [threads EXCEPT !.del.pc = "save_metadata"]
    /\ UNCHANGED <<index, metadata, id_to_index, metadata_file, last, deleted,
                   preceding, request>>

\* FAISSService._save_metadata(); back in delete_resume: return True
DelSaveMetadata ==
    /\ threads.del.pc = "save_metadata"
    /\ metadata_file' = SaveMetadata(metadata_file, metadata, id_to_index, "ok")
    /\ DelReturn(TRUE)
    /\ UNCHANGED <<index, metadata, id_to_index, index_file>>

NextThreads ==
    \/ AddResumeBeforeThreads
    \/ AddCall \/ AddPosition \/ AddVector \/ AddMetadata \/ AddIdToIndex
    \/ AddSaveIndex \/ AddSaveMetadata
    \/ DelCall \/ DelCheck \/ DelMetadata \/ DelIdToIndex \/ DelIterate
    \/ DelLoop \/ DelInstallIndex \/ DelInstallIdToIndex \/ DelSaveIndex
    \/ DelSaveMetadata

SpecThreads == Init /\ [][NextThreads]_vars

(***************************************************************************)
(* The claims.                                                             *)
(***************************************************************************)
\* The step just taken was the call op (every call leaves its name in last).
Called(op) == last'.op = op

InMemoryAndOnDisk == <<index, metadata, id_to_index, index_file, metadata_file>>

\* C1: every resume_id that is a key of _metadata has exactly one position
\* in _id_to_index, and that position is an occupied slot of the index,
\* 0 <= p < ntotal.
C1_ThreeWayConsistency ==
    \A id \in Keys(metadata) :
        /\ Cardinality({i \in DOMAIN id_to_index : id_to_index[i].key = id}) = 1
        /\ Get(id_to_index, id) \in 0..(ntotal(index) - 1)

\* C2 as claimed: a successful add_resume(id, text, v) immediately followed by
\* search_resumes(v, 1) returns exactly one hit, id, at distance 0.
C2_AddThenSearchReturnsId ==
    (last.op = "add_resume" /\ last.ok) =>
        LET results == search_resumes(last.emb, 1)
        IN  /\ ~results.none
            /\ results.ids = <<last.id>>
            /\ results.distances = <<0>>

\* C2 as amended: a successful add_resume(id, text, v) immediately followed by
\* search_resumes(v, 1) does not fail and returns at most one hit, at
\* distance 0; when id was not present before the add and no vector equal to
\* v was in the index, the hit is there and it is id.
C2_AddThenSearchAmended ==
    [][(Called("add_resume") /\ last'.ok) =>
            LET results == SearchOn(index', metadata', id_to_index', last'.emb, 1)
            IN  /\ ~results.none
                /\ Len(results.ids) <= 1
                /\ \A i \in DOMAIN results.distances : results.distances[i] = 0
                /\ (/\ ~Has(metadata, last'.id)
                    /\ ~Has(id_to_index, last'.id)
                    /\ \A i \in DOMAIN index : index[i] # last'.emb)
                   => (results.ids = <<last'.id>> /\ results.distances = <<0>>)
      ]_vars

\* C2's case: an id added beside another one is the top hit for its vector.
C2_Witness ==
    /\ last.op = "add_resume" /\ last.ok
    /\ ntotal(index) = 2
    /\ Cardinality(Keys(id_to_index)) = 2
    /\ Get(id_to_index, last.id) = 1
    /\ index[1] # index[2]
    /\ search_resumes(last.emb, 1).ids = <<last.id>>

\* C3: add_resume with a resume_id that is already present fails, and changes
\* neither the index, the two dictionaries nor the files.
C3_DuplicateAddRejected ==
    [][(Called("add_resume") /\ Has(metadata, last'.id)) =>
            (~last'.ok /\ UNCHANGED InMemoryAndOnDisk)]_vars

\* C4: an id deleted with success and not added again is returned by no
\* search_resumes call, whatever the query and n_results.
C4_DeletedNeverReturned ==
    \A id \in deleted, q \in Embeddings, k \in Ks :
        LET results == search_resumes(q, k)
        IN  \A i \in DOMAIN results.ids : results.ids[i] # id

\* C4's case: after a delete, a search that does return a hit.
C4_Witness ==
    /\ deleted # {}
    /\ last.op = "search_resumes"
    /\ Len(last.res.ids) > 0

\* C5: after a successful delete_resume, total_items is what it was right
\* before the delete, minus one.
C5_DeleteDecrementsTotal ==
    [][(Called("delete_resume") /\ last'.ok) =>
            total_items' = total_items - 1]_vars

\* C6: delete_resume(id) keeps every surviving record's vector: an id j that
\* a search with its stored vector returned at distance 0 before the delete
\* is still returned at distance 0 after it.
C6_DeletePreservesSurvivors ==
    [][(Called("delete_resume") /\ last'.ok) =>
            \A j \in Keys(metadata) \ {last'.id} :
                LET p == Get(id_to_index, j)
                    FoundAtZero(results) ==
                        \E i \in DOMAIN results.ids :
                            results.ids[i] = j /\ results.distances[i] = 0
                IN  (/\ p < ntotal(index)
                     /\ FoundAtZero(search_resumes(index[p + 1], MaxTotal + 1)))
                    => FoundAtZero(SearchOn(index', metadata', id_to_index',
                                            index[p + 1], MaxTotal + 1))
      ]_vars

\* C7: with n ids stored, search_resumes(q, k) with k > n returns exactly n
\* hits, one for each stored id, by ascending distance.
C7_SearchBeyondCountReturnsAll ==
    \A q \in Vectors, k \in Ks :
        k > Cardinality(Keys(metadata)) =>
            LET results == search_resumes(q, k)
            IN  /\ ~results.none
                /\ Len(results.ids) = Cardinality(Keys(metadata))
                /\ {results.ids[i] : i \in DOMAIN results.ids} = Keys(metadata)
                /\ \A i \in 1..(Len(results.distances) - 1) :
                        results.distances[i] <= results.distances[i + 1]

\* C8: search_resumes fails exactly when the query's length is not D,
\* whatever the index holds and whatever n_results is.
C8_SearchFailsIffWrongLength ==
    last.op = "search_resumes" => (last.ok <=> Len(last.emb) = Dim)

\* C9: on an empty index search_resumes returns the result with four empty
\* lists, not None, whatever the query and n_results.
C9_EmptyIndexEmptyResult ==
    ntotal(index) = 0 =>
        /\ \A q \in Embeddings, k \in Ks : search_resumes(q, k) = EmptyResult
        /\ last.op = "search_resumes" => (last.ok /\ last.res = EmptyResult)

\* C9's case: a search on the index that clear_collection (or a delete) has
\* emptied and saved.
C9_Witness ==
    /\ last.op = "search_resumes"
    /\ last.res = EmptyResult
    /\ ntotal(index) = 0
    /\ index_file = [st |-> "ok", vecs |-> <<>>]

\* C10: add_resume with an embedding whose length is not D returns False and
\* changes neither the index, the two dictionaries nor the files.
C10_WrongLengthAddRejected ==
    [][(Called("add_resume") /\ Len(last'.emb) # Dim) =>
            (~last'.ok /\ UNCHANGED InMemoryAndOnDisk)]_vars

\* C10's case: a rejected add on an index that holds vectors.
C10_Witness ==
    /\ last.op = "add_resume"
    /\ ~last.ok
    /\ Len(last.emb) # Dim
    /\ ntotal(index) > 0

\* C11: delete_resume(id) for an id that is not stored returns False and
\* changes neither the index, the two dictionaries nor the files: there is
\* no rebuild and no save.
C11_DeleteAbsentChangesNothing ==
    [][(Called("delete_resume") /\ ~Has(metadata, last'.id)) =>
            (~last'.ok /\ UNCHANGED InMemoryAndOnDisk)]_vars

\* C11's case: a delete that found nothing, in a state that holds a vector
\* and an id a rebuild would have renumbered.
C11_Witness ==
    /\ last.op = "delete_resume"
    /\ ~last.ok
    /\ ~Has(metadata, last.id)
    /\ ntotal(index) > 0
    /\ Keys(metadata) # {}

\* The calls that change the stored collection.
Mutating == {"add_resume", "delete_resume", "clear_collection"}

\* What initialize() would load from the two files, as <<index, _metadata,
\* _id_to_index>>.
Loaded(fi, fm) ==
    <<LoadIndex(fi), LoadMetadata(fm).metadata, LoadMetadata(fm).id_to_index>>

InMemory == <<index, metadata, id_to_index>>

\* C12: after a successful add_resume, delete_resume or clear_collection
\* whose writes succeed, the two files hold the in-memory state: what
\* initialize would load is what is in memory, and an initialize that comes
\* next (a restart) leaves the index and the two dictionaries as they were.
C12_PersistedEqualsInMemory ==
    [][/\ (last'.op \in Mutating /\ last'.ok) =>
                Loaded(index_file', metadata_file') = InMemory'
       /\ (Called("initialize") /\ last.op \in Mutating /\ last.ok) =>
                UNCHANGED InMemory
      ]_vars

\* C12's case: a restart right after two adds were saved has loaded two
\* vectors and two ids with their records.
C12_Witness ==
    /\ last.op = "initialize"
    /\ ntotal(index) = 2
    /\ Cardinality(Keys(metadata)) = 2
    /\ Keys(id_to_index) = Keys(metadata)
    /\ InMemory = Loaded(index_file, metadata_file)

\* C13: a save is atomic across the two files.  Whatever way the two writes
\* of a mutating call end, a load of the files after the call yields either
\* what a load yielded before the call or the state the call left in memory,
\* never the index of one and the dictionaries of the other.
C13_SaveIsAtomic ==
    [][last'.op \in Mutating =>
            Loaded(index_file', metadata_file') \in
                {Loaded(index_file, metadata_file), InMemory'}]_vars

\* C14: initialize with either file absent starts with all three structures
\* empty, also when the other file is there and holds data.
C14_EitherAbsentStartsEmpty ==
    [][(/\ Called("initialize")
        /\ (index_file.st = "absent" \/ metadata_file.st = "absent")) =>
            InMemory' = <<<<>>, <<>>, <<>>>>]_vars

\* C15: initialize with a file that is there but does not parse reports an
\* error to its caller.
C15_MalformedFailsLoudly ==
    [][(/\ Called("initialize")
        /\ (index_file.st = "malformed" \/ metadata_file.st = "malformed")) =>
            ~last'.ok]_vars

\* Both writes of the save that ends a mutating call succeeded: each file
\* holds what the call left in memory.  (A write that fails leaves its file
\* as it was or truncated.)
BothWritten ==
    /\ index_file = SaveIndex(index_file, index, "ok")
    /\ metadata_file = SaveMetadata(metadata_file, metadata, id_to_index, "ok")

\* C16: a write that fails during add_resume, delete_resume or
\* clear_collection shows in the return value: the call does not return
\* what it returns when both files were written.
C16_WriteFailureSurfaced ==
    [][(last'.op \in Mutating /\ last'.ok) => BothWritten']_vars

\* The id is among the ids that results lists.
FoundIn(results, id) == \E i \in DOMAIN results.ids : results.ids[i] = id

\* C17: an add_resume during which a write fails keeps what it did in
\* memory: after the call its id is listed by list_all_resumes, returned by
\* get_resume and found by search_resumes with the added vector, however
\* many results are asked for beyond the first.
C17_FailedWriteKeepsInMemory ==
    [][(Called("add_resume") /\ last'.ok /\ ~BothWritten') =>
            \E id \in ResumeIds :
                /\ id = last'.id
                /\ \E i \in DOMAIN list_all_resumes' : list_all_resumes'[i] = id
                /\ get_resume(id)' = [get_resume(id)' EXCEPT !.none = FALSE]
                /\ FoundIn(SearchOn(index', metadata', id_to_index', last'.emb,
                                    MaxTotal + 1), id)]_vars

Empty == <<<<>>, <<>>, <<>>>>

\* C18: clear_collection returns True, empties the index and the two
\* dictionaries and saves that state: the files load as empty, and an
\* initialize that comes next (a restart) gives total_items = 0 and an empty
\* list of ids, whatever was stored before the clear.
C18_ClearThenRestartIsEmpty ==
    [][/\ Called("clear_collection") =>
            /\ last'.ok
            /\ InMemory' = Empty
            /\ Loaded(index_file', metadata_file') = Empty
       /\ (Called("initialize") /\ last.op = "clear_collection") =>
            /\ total_items' = 0
            /\ list_all_resumes' = <<>>
      ]_vars

\* C18's case: the state after a clear and a restart, the two files written
\* by the clear.
C18_Witness ==
    /\ last.op = "initialize"
    /\ preceding = "clear_collection"
    /\ total_items = 0
    /\ list_all_resumes = <<>>
    /\ index_file = [st |-> "ok", vecs |-> <<>>]
    /\ metadata_file = [st |-> "ok", metadata |-> <<>>, id_to_index |-> <<>>]

\* C19: with the files as they are, an initialize that follows an initialize
\* leaves the index and the two dictionaries as the first one left them:
\* what is loaded replaces what is in memory.
C19_InitializeIdempotent ==
    [][(Called("initialize") /\ last.op = "initialize") =>
            UNCHANGED InMemory]_vars

\* C19's case: initialize called twice in a row on files that hold data.
C19_Witness ==
    /\ last.op = "initialize"
    /\ preceding = "initialize"
    /\ ntotal(index) > 0
    /\ Keys(metadata) # {}

\* Both threads have returned, from add_resume(a, ...) and delete_resume(b)
\* with a # b.
BothReturned ==
    /\ threads.add.pc = "done"
    /\ threads.del.pc = "done"
    /\ threads.add.resume_id # threads.del.resume_id

\* C20: when add_resume(a, text, v) and delete_resume(b), a # b, have run in
\* two threads and both have returned, a is a key of _metadata, is bound in
\* _id_to_index, and the position it is bound to holds v in the index.
C20_AddSurvivesConcurrentDelete ==
    BothReturned =>
        /\ Has(metadata, threads.add.resume_id)
        /\ Has(id_to_index, threads.add.resume_id)
        /\ Get(id_to_index, threads.add.resume_id) < ntotal(index)
        /\ index[Get(id_to_index, threads.add.resume_id) + 1]
                = threads.add.embedding

\* C21: an /add-resume or /search-resumes request for which the embedding
\* generator returned no vector is answered as failed, the service is not
\* called for it, and the index, the dictionaries and the files stay as
\* they were; and whenever a request does reach the service, the vector
\* passed is the one the generator returned.
C21_EmbeddingFailurePropagated ==
    [][request'.route \in {"/add-resume", "/search-resumes"} =>
            /\ request'.generated = NoVector =>
                    /\ request'.status = 400
                    /\ last' = NoCall
                    /\ UNCHANGED InMemoryAndOnDisk
            /\ last' # NoCall => last'.emb = request'.generated
      ]_vars

\* C21's case: an /add-resume turned down for lack of a vector, on a service
\* that holds data.
C21_Witness ==
    /\ request.route = "/add-resume"
    /\ request.generated = NoVector
    /\ request.status = 400
    /\ ntotal(index) > 0
    /\ Keys(metadata) # {}

\* No two ids of the mapping idmap are bound to the same position.
Injective(idmap) ==
    \A i, j \in DOMAIN idmap : idmap[i].val = idmap[j].val => i = j

\* C22: positions are never shared or reused.  After every call
\* _id_to_index is injective, and the position a successful add_resume
\* binds a new id to is bound to no other id, also after a delete has
\* rebuilt the mapping.
C22_PositionsNeverShared ==
    [][/\ Injective(id_to_index')
       /\ (Called("add_resume") /\ last'.ok /\ ~Has(id_to_index, last'.id)) =>
            \A i \in DOMAIN id_to_index :
                id_to_index[i].val # ntotal(index)
      ]_vars

\* How many of the n nearest positions to q have an id bound to them.
BoundAmongNearest(q, n) ==
    Cardinality({i \in 1..n :
        FlatSearch(index, q, n)[i].idx \in DOMAIN index_to_id(id_to_index)})

\* C23: in every state and for every query of length D and every n_results,
\* search_resumes does not fail; it returns one entry for each of the
\* min(n_results, ntotal) nearest positions that has an id and skips the
\* others, so its four lists have the same length, at most
\* min(n_results, ntotal), and its distances never decrease.
C23_SearchSkipsUnboundHits ==
    \A q \in Vectors, k \in Ks :
        LET results == search_resumes(q, k)
        IN  /\ ~results.none
            /\ Len(results.ids) = BoundAmongNearest(q, Min(k, ntotal(index)))
            /\ Len(results.distances) = Len(results.ids)
            /\ Len(results.documents) = Len(results.ids)
            /\ Len(results.metadatas) = Len(results.ids)
            /\ Len(results.ids) <= Min(k, ntotal(index))
            /\ \A i \in 1..(Len(results.distances) - 1) :
                    results.distances[i] <= results.distances[i + 1]

\* C23's case: a search that skipped a position without an id and returned
\* the hit behind it.
C23_Witness ==
    /\ last.op = "search_resumes"
    /\ last.ok
    /\ Len(last.res.ids) > 0
    /\ Len(last.res.ids) < Min(last.k, ntotal(index))
    /\ last.res = search_resumes(last.emb, last.k)

\* The calls that only read.
Reads ==
    {"search_resumes", "get_resume", "get_collection_stats", "list_all_resumes"}

\* C24: search_resumes, get_resume, get_collection_stats and
\* list_all_resumes leave the index, the two dictionaries and both files as
\* they were, whatever their input and whether they succeed or fail.
C24_ReadsChangeNothing ==
    [][last'.op \in Reads => UNCHANGED InMemoryAndOnDisk]_vars

\* C24's case: a read that failed on a service that holds data, a get_resume
\* of an id that is not stored.
C24_Witness ==
    /\ last.op = "get_resume"
    /\ ~last.ok
    /\ get_resume(last.id).none
    /\ ntotal(index) > 0
    /\ Keys(metadata) # {}
    /\ index_file.st = "ok"

=============================================================================
